---- MODULE Spec2Model ----
(***************************************************************************)
(* Model of the local actor runtime: Executor (src/src/core/Host.ts),      *)
(* Host (src/src/node-cluster/Worker.ts), ExecutorPool                     *)
(* (src/src/core/Scheduling.ts), FSM, Deferred and the references.          *)
(*                                                                         *)
(* One step of the model is one synchronous run of JavaScript: a call of   *)
(* Host.receive by the transport, the settling of a promise owned by user  *)
(* code or by the transport, or one job of the microtask queue.  An async  *)
(* function runs synchronously up to its first await; what follows the     *)
(* await is a later microtask.  The microtask queue is FIFO.                *)
(***************************************************************************)
EXTENDS Integers, Sequences, FiniteSets, TLC

\* Bounds of the model.
MaxMsgs == 2
MaxCreates == 2
MaxKills == 1
MaxIds == 2
MaxMsgsRemote == 3
MaxMsgsCalls == 2
MaxDepth == 2
MaxMsgsContext == 1
MaxMsgsStray == 1
MaxCallIds == 1

(***************************************************************************)
(* References.  A reference is the path of its URL "proc://a<path>", a     *)
(* sequence of segments: "proc://a/" is <<"">>, "proc://a/c" is <<"c">>.   *)
(***************************************************************************)
Root == <<"">>
Child == <<"c">>
Procs == {Root, Child}
Undefined == <<"undefined">>

Shorten(path) == IF Len(path) = 0 THEN path ELSE SubSeq(path, 1, Len(path) - 1)

\* new URL("..", url.href): drop the last segment, then one more for "..",
\* and end with an empty segment.
parent(ref) == Shorten(Shorten(ref)) \o <<"">>

RECURSIVE pathname(_)
pathname(path) == IF Len(path) = 0 THEN "" ELSE "/" \o Head(path) \o pathname(Tail(path))

\* URLReference.child: new URL(path, url.href) with a path of one segment,
\* which takes the place of the last segment of the base.
childOf(ref, path) == Shorten(ref) \o <<path>>

\* process.url.toString()
keyOf(ref) == "proc://a" \o pathname(ref)

\* Process.Reference declares no toString: Object.prototype.toString answers
\* for every reference.
toString(ref) == "[object Object]"

(***************************************************************************)
(* Values that travel.  A payload is opaque; the model draws it from atoms *)
(* (tag "atom", any property of which reads undefined) and from messages   *)
(* (tag "message": an object with sender, receiver and an atom payload).   *)
(***************************************************************************)
Atom(n) == [tag |-> "atom", n |-> n, sender |-> Undefined, receiver |-> Undefined]
Message(sender, receiver, n) == [tag |-> "message", n |-> n, sender |-> sender, receiver |-> receiver]
payloadOf(message) == Atom(message.n)
NoValue == Atom(0)

MessagePacket(sender, receiver, payload) ==
    [kind |-> "Message", sender |-> sender, receiver |-> receiver, payload |-> payload]

Create(childRef, stance) == [kind |-> "SchedulingCreate", child |-> childRef, stance |-> stance]

Request(id, child, reason) ==
    [kind |-> "SupervisionRequest", id |-> id, child |-> child, reason |-> reason]
Response(id, child, effect) ==
    [kind |-> "SupervisionResponse", id |-> id, child |-> child, effect |-> effect]
\* Variant: a response addressed to the parent of the request's child.
responseToParent(request, effect) == Response(request.id, parent(request.child), effect)

\* Request.response
response(request, effect) == Response(request.id, request.child, effect)
NoRequest == Request(0, Undefined, "")

Effects == {"resume", "stop"}
Stances == {[state |-> 0, behavior |-> "b"], [state |-> 1, behavior |-> "b"]}
InitialStance == [state |-> 0, behavior |-> "b"]
NoStance == [state |-> -1, behavior |-> ""]

(***************************************************************************)
(* FSM                                                                     *)
(***************************************************************************)
ExecutorStates ==
    {"start", "sleeping", "supervising", "receiving", "raising", "terminating", "end"}

allowedExecutorStateTransitions ==
    [s \in ExecutorStates |->
        CASE s = "start" -> {"sleeping"}
          [] s = "sleeping" -> {"terminating", "supervising", "receiving", "raising"}
          [] s = "supervising" -> {"raising", "sleeping"}
          [] s = "receiving" -> {"raising", "sleeping"}
          [] s = "raising" -> {"terminating", "sleeping"}
          [] s = "terminating" -> {"end"}
          [] s = "end" -> {}]

\* Variant: transitionTo that does not consult the table.
transitionAlways(state, nextState) == TRUE

\* The test of FSM.transitionTo: whether the transition is declared.
transitionAllowed(state, nextState) == nextState \in allowedExecutorStateTransitions[state]

DeferredStates == {"pending", "rejected", "resolved"}
allowedStateTransitions ==
    [s \in DeferredStates |-> IF s = "pending" THEN {"rejected", "resolved"} ELSE {}]

\* new InvariantError(kind, description): the message is `${kind}: ${description}`.
InvariantError(kind, description) ==
    [kind |-> kind, message |-> kind \o ": " \o description]
NoError == [kind |-> "", message |-> ""]

\* new FSM(initialState, allowedStateTransitions)
FSM(initialState, table) == [state |-> initialState, allowedStateTransitions |-> table]

\* Variant: transitionTo that sets the state before it consults the table.
transitionToThenTest(fsm, nextState) ==
    [fsm |-> [fsm EXCEPT !.state = nextState],
     error |-> IF nextState \notin fsm.allowedStateTransitions[fsm.state]
               THEN InvariantError("FSMInvariantError",
                        "Transition from '" \o fsm.state \o "' to '" \o nextState
                            \o "' is not allowed")
               ELSE NoError]

\* FSM.transitionTo: the FSM after the call and the error thrown, if any.
transitionTo(fsm, nextState) ==
    IF nextState \notin fsm.allowedStateTransitions[fsm.state]
    THEN [fsm |-> fsm,
          error |-> InvariantError("FSMInvariantError",
                        "Transition from '" \o fsm.state \o "' to '" \o nextState
                            \o "' is not allowed")]
    ELSE [fsm |-> [fsm EXCEPT !.state = nextState], error |-> NoError]

\* A promise settles once: the resolve and reject functions of a settled
\* promise do nothing.
Unsettled == [state |-> "pending", value |-> ""]
settlePromise(promise, state, value) ==
    IF promise.state # "pending" THEN promise ELSE [state |-> state, value |-> value]

\* new Deferred()
Deferred == [fsm |-> FSM("pending", allowedStateTransitions), promise |-> Unsettled]

\* Deferred.join: the promise the caller awaits.
join(deferred) == deferred.promise

\* Variant: a Deferred whose resolve and reject make no assertion and no
\* transition test, over a promise that takes the latest settlement.
settleAgain(deferred, to, state, value) ==
    [deferred |-> [fsm |-> [deferred.fsm EXCEPT !.state = to],
                   promise |-> [state |-> state, value |-> value]],
     error |-> NoError]

\* The body shared by Deferred.resolve and Deferred.reject: assert 'pending',
\* transitionTo(to), then settle the promise.
settleDeferred(deferred, to, state, value) ==
    IF deferred.fsm.state # "pending"
    THEN [deferred |-> deferred,
          error |-> InvariantError("FSMInvariantError", "Assertion not matched")]
    ELSE LET t == transitionTo(deferred.fsm, to)
         IN  IF t.error # NoError
             THEN [deferred |-> deferred, error |-> t.error]
             ELSE [deferred |-> [fsm |-> t.fsm,
                                 promise |-> settlePromise(deferred.promise, state, value)],
                   error |-> NoError]

\* Deferred.resolve
resolve(deferred, result) == settleDeferred(deferred, "resolved", "fulfilled", result)

\* Deferred.reject
reject(deferred, reason) == settleDeferred(deferred, "rejected", "rejected", reason)

(***************************************************************************)
(* Outcomes of awaited promises and frames of suspended async functions.   *)
(***************************************************************************)
Return(stance, effect) == [ok |-> TRUE, stance |-> stance, effect |-> effect, reason |-> ""]
Throw(reason) == [ok |-> FALSE, stance |-> NoStance, effect |-> "", reason |-> reason]
Tick == Return(NoStance, "")

\* A frame is an async function suspended at the await of source line `at`.
\* `dispatch` remembers, for the frames of Executor.receive, the message being
\* dispatched and the stance it was dispatched with (history only).
Frame(at, request, reason, dispatch) ==
    [at |-> at, request |-> request, reason |-> reason, dispatch |-> dispatch]
NoDispatch == [message |-> NoValue, stance |-> NoStance]
At(at) == Frame(at, NoRequest, "", NoDispatch)

\* The methods Host's constructor binds to the Host.
BoundMethods ==
    {"createProcess", "dispatchMessage", "dispatchSupervisionResponse",
     "supervise", "terminateProcess", "tick"}

VARIABLES
    executors,  \* the Executors constructed by receiveCreate and inserted in the pool
    pool,       \* ExecutorPool.pool: key -> pendingSupervisionRequests (id -> Deferred state)
    net,        \* packets handed to context.publish and not yet delivered
    mq,         \* the microtask queue
    waiting,    \* async call chains suspended on user code, the transport or a Deferred
    nextId,     \* the next fresh Supervision.Id
    nextMsg,    \* number of the next Message the transport delivers
    creates,    \* SchedulingCreate packets delivered so far
    kills,      \* SchedulingTerminate packets delivered so far
    cluster,    \* the setting of this Host (never changes): the processes placed
                \* here, the number of Messages sent to them, and the Context
                \* its Executors are constructed with
    last,       \* what the last step did (history only)
    unit        \* an FSM, a Deferred and a reference on their own, outside any Host,
                \* with the last call made on one of them

hostVars == <<executors, pool, net, mq, waiting, nextId, nextMsg, creates, kills, cluster, last>>

vars == <<executors, pool, net, mq, waiting, nextId, nextMsg, creates, kills, cluster, last,
          unit>>


(***************************************************************************)
(* The state a synchronous run works on, and what it records.              *)
(***************************************************************************)
Cur ==
    [executors |-> executors, pool |-> pool, net |-> net, mq |-> mq,
     waiting |-> waiting, nextId |-> nextId,
     trans |-> <<>>,        \* FSM transitions made in this step, in order
     branch |-> "none",      \* the branch the step's resume() took, if it ran one
     popped |-> NoRequest,   \* the queue entry that resume() dequeued
     invoked |-> NoValue,    \* the payload handed to the behavior
     error |-> "",           \* the error the step's entry point failed with
     preempted |-> FALSE]    \* 'terminating' was entered with a kill made mid-dispatch

\* ExecutorPool.hasProcess
hasProcess(M, process) == keyOf(process) \in DOMAIN M.pool

\* context.publish(packet): the packet is handed to the transport.
publish(M, packet) == [M EXCEPT !.net = @ \cup {packet}]

\* An async function called with the suspended frames `stack` of its callers
\* has settled with `outcome`: the innermost caller's await continues in a
\* later microtask.  A call nobody awaits (wake) is dropped.
Settle(M, p, stack, outcome) ==
    IF stack = <<>>
    THEN IF outcome.ok THEN M ELSE [M EXCEPT !.error = outcome.reason]
    ELSE [M EXCEPT !.mq = Append(@, [kind |-> "cont", proc |-> p, orphan |-> FALSE,
                                     spent |-> FALSE, stack |-> stack,
                                     outcome |-> outcome])]

\* Suspend on a promise that something outside the Executor settles.
Suspend(M, p, stack) == [M EXCEPT !.waiting = @ \cup {[proc |-> p, stack |-> stack]}]

\* FSM.transitionTo, after its test has passed.
Goto(M, p, nextState) ==
    [M EXCEPT !.executors[p].fsm = nextState,
              !.executors[p].killedInDispatch = @ /\ nextState # "sleeping",
              !.preempted = @ \/ (nextState = "terminating"
                                    /\ M.executors[p].killedInDispatch),
              !.trans = Append(@, <<M.executors[p].fsm, nextState>>)]

\* ExecutorPool.deleteProcess
deleteProcess(M, process) ==
    [M EXCEPT !.pool = [k \in DOMAIN M.pool \ {keyOf(process)} |-> M.pool[k]]]

\* Host.releaseProcess as the Executor calls it, through the context
\* dictionary: a method the constructor did not bind runs with the dictionary
\* as `this`, which has no executorPool.
releaseProcess(M, process) ==
    IF "releaseProcess" \notin BoundMethods
    THEN [M |-> M, outcome |-> Throw("TypeError")]
    ELSE IF ~hasProcess(M, process)
         THEN [M |-> M, outcome |-> Throw("HostInvariantError")]
         ELSE [M |-> deleteProcess(M, process), outcome |-> Tick]

\* this.context.releaseProcess(this.self): Context is an interface
\* (lines 111-123).  The Host passes executorContext(); a Context of kind
\* "resolving" is one whose releaseProcess resolves, whatever else it does.
contextReleaseProcess(M, process) ==
    IF cluster.context = "executorContext"
    THEN releaseProcess(M, process)
    ELSE [M |-> M, outcome |-> Tick]

\* Executor.terminate(reason) up to its await.
terminate(M, p, stack, reason) ==
    IF M.executors[p].fsm # "terminating"
    THEN Settle(M, p, stack, Throw("FSMInvariantError"))
    ELSE LET r == contextReleaseProcess(M, p)
         IN  Settle(r.M, p, Append(stack, Frame("terminate@350", NoRequest, reason,
                                                  NoDispatch)),
                    r.outcome)

\* Executor.processContext and the call of user code: the chain is suspended
\* until the behavior settles.  Executor.receive up to its await.
receive(M, p, stack, message) ==
    IF M.executors[p].fsm # "receiving"
    THEN Settle(M, p, stack, Throw("FSMInvariantError"))
    ELSE Suspend([M EXCEPT !.invoked = payloadOf(message)],
                 p, Append(stack, Frame("receive@294", NoRequest, "",
                                        [message |-> message,
                                         stance |-> M.executors[p].stance])))

\* Executor.supervise up to its await of the strategy.
supervise(M, p, stack, request) ==
    IF M.executors[p].fsm # "supervising"
    THEN Settle(M, p, stack, Throw("FSMInvariantError"))
    ELSE Suspend(M, p, Append(stack, Frame("supervise@274", request, "", NoDispatch)))

\* Variant: an insert that looks only for the child's pool entry.
insertDeferredRejectedAbsent(M, request) == ~hasProcess(M, request.child)

\* ExecutorPool.insertDeferredSupervisionRequest: whether it throws.
insertDeferredRejected(M, request) ==
    \/ ~hasProcess(M, request.child)
    \/ request.id \in DOMAIN M.pool[keyOf(request.child)]

\* ExecutorPool.insertDeferredSupervisionRequest with a new, pending Deferred.
insertDeferredSupervisionRequest(M, request) ==
    LET key == keyOf(request.child)
    IN  [M EXCEPT !.pool[key] =
            [i \in DOMAIN M.pool[key] \cup {request.id} |->
                IF i = request.id THEN "pending" ELSE M.pool[key][i]]]

\* Executor.raise up to its await of context.supervise, with Host.supervise
\* up to its awaits of publish and of the Deferred.
raise(M, p, stack, reason) ==
    IF M.executors[p].fsm # "raising"
    THEN Settle(M, p, stack, Throw("FSMInvariantError"))
    ELSE LET request == Request(M.nextId, p, reason)
             frames == Append(stack, Frame("raise@318", request, reason, NoDispatch))
             N == [M EXCEPT !.nextId = @ + 1]
         IN  IF insertDeferredRejected(N, request)
             THEN Settle(N, p, frames, Throw("HostInvariantError"))
             ELSE Suspend(publish(insertDeferredSupervisionRequest(N, request), request),
                          p, frames)

\* Variant: resume that looks at the messages before the requests.
resumeMessagesFirst(M, p, stack) ==
    LET e == M.executors[p]
    IN  IF e.fsm # "sleeping"
        THEN Settle(M, p, stack, Throw("FSMInvariantError"))
        ELSE IF e.hasTerminationBeenRequested
        THEN terminate(Goto([M EXCEPT !.branch = "terminate"], p, "terminating"),
                       p, Append(stack, At("resume@243")), e.terminationReason)
        ELSE IF e.messages # <<>>
        THEN receive(Goto([M EXCEPT !.branch = "receive",
                                    !.popped = Head(e.messages),
                                    !.executors[p].messages = Tail(@)],
                          p, "receiving"),
                     p, Append(stack, At("resume@257")), Head(e.messages))
        ELSE IF e.requests # <<>>
        THEN supervise(Goto([M EXCEPT !.branch = "supervise",
                                      !.popped = Head(e.requests),
                                      !.executors[p].requests = Tail(@)],
                            p, "supervising"),
                       p, Append(stack, At("resume@250")), Head(e.requests))
        ELSE Settle([M EXCEPT !.branch = "idle"], p, stack, Throw("FSMInvariantError"))

\* Variant: resume that looks at the termination flag only when both queues
\* are empty.
resumeFlagLast(M, p, stack) ==
    LET e == M.executors[p]
    IN  IF e.fsm # "sleeping"
        THEN Settle(M, p, stack, Throw("FSMInvariantError"))
        ELSE IF e.requests # <<>>
        THEN supervise(Goto([M EXCEPT !.branch = "supervise",
                                      !.popped = Head(e.requests),
                                      !.executors[p].requests = Tail(@)],
                            p, "supervising"),
                       p, Append(stack, At("resume@250")), Head(e.requests))
        ELSE IF e.messages # <<>>
        THEN receive(Goto([M EXCEPT !.branch = "receive",
                                    !.popped = Head(e.messages),
                                    !.executors[p].messages = Tail(@)],
                          p, "receiving"),
                     p, Append(stack, At("resume@257")), Head(e.messages))
        ELSE IF e.hasTerminationBeenRequested
        THEN terminate(Goto([M EXCEPT !.branch = "terminate"], p, "terminating"),
                       p, Append(stack, At("resume@243")), e.terminationReason)
        ELSE Settle([M EXCEPT !.branch = "idle"], p, stack, Throw("FSMInvariantError"))

\* Variant: resume that dispatches the front entry of a queue and leaves it
\* in the queue.
resumePeek(M, p, stack) ==
    LET e == M.executors[p]
    IN  IF e.fsm # "sleeping"
        THEN Settle(M, p, stack, Throw("FSMInvariantError"))
        ELSE IF e.hasTerminationBeenRequested
        THEN terminate(Goto([M EXCEPT !.branch = "terminate"], p, "terminating"),
                       p, Append(stack, At("resume@243")), e.terminationReason)
        ELSE IF e.requests # <<>>
        THEN supervise(Goto([M EXCEPT !.branch = "supervise",
                                      !.popped = Head(e.requests)],
                            p, "supervising"),
                       p, Append(stack, At("resume@250")), Head(e.requests))
        ELSE IF e.messages # <<>>
        THEN receive(Goto([M EXCEPT !.branch = "receive",
                                    !.popped = Head(e.messages)],
                          p, "receiving"),
                     p, Append(stack, At("resume@257")), Head(e.messages))
        ELSE Settle([M EXCEPT !.branch = "idle"], p, stack, Throw("FSMInvariantError"))

\* Executor.resume up to its first await.
resume(M, p, stack) ==
    LET e == M.executors[p]
    IN  IF e.fsm # "sleeping"
        THEN Settle(M, p, stack, Throw("FSMInvariantError"))
        ELSE IF e.hasTerminationBeenRequested
        THEN terminate(Goto([M EXCEPT !.branch = "terminate"], p, "terminating"),
                       p, Append(stack, At("resume@243")), e.terminationReason)
        ELSE IF e.requests # <<>>
        THEN supervise(Goto([M EXCEPT !.branch = "supervise",
                                      !.popped = Head(e.requests),
                                      !.executors[p].requests = Tail(@)],
                            p, "supervising"),
                       p, Append(stack, At("resume@250")), Head(e.requests))
        ELSE IF e.messages # <<>>
        THEN receive(Goto([M EXCEPT !.branch = "receive",
                                    !.popped = Head(e.messages),
                                    !.executors[p].messages = Tail(@)],
                          p, "receiving"),
                     p, Append(stack, At("resume@257")), Head(e.messages))
        ELSE IF transitionAllowed(e.fsm, "sleeping")
        THEN Settle(Goto([M EXCEPT !.branch = "idle"], p, "sleeping"), p, stack, Tick)
        ELSE Settle([M EXCEPT !.branch = "idle"], p, stack, Throw("FSMInvariantError"))

\* The catch of Executor.resume (lines 259-263).
resumeCatch(M, p, rest, reason) ==
    IF transitionAllowed(M.executors[p].fsm, "raising")
    THEN raise(Goto(M, p, "raising"), p, Append(rest, At("resume@262")), reason)
    ELSE Settle(M, p, rest, Throw("FSMInvariantError"))

\* Executor.receive after its await (lines 295-305).
receiveContinue(M, p, rest, frame, outcome) ==
    IF ~outcome.ok
    THEN IF transitionAllowed(M.executors[p].fsm, "raising")
         THEN raise(Goto(M, p, "raising"), p,
                    Append(rest, Frame("receive@301", NoRequest, outcome.reason,
                                       frame.dispatch)),
                    outcome.reason)
         ELSE Settle(M, p, rest, Throw("FSMInvariantError"))
    ELSE IF M.executors[p].fsm # "receiving"              \* become: fsm.assert
    THEN Settle(M, p, rest, Throw("FSMInvariantError"))
    ELSE LET N == [M EXCEPT !.executors[p].stance = outcome.stance]
         IN  IF transitionAllowed(N.executors[p].fsm, "sleeping")
             THEN resume(Goto(N, p, "sleeping"), p, Append(rest, At("receive@305")))
             ELSE Settle(N, p, rest, Throw("FSMInvariantError"))

\* Executor.supervise after its await of the strategy (lines 275-285).
superviseContinue(M, p, rest, frame, outcome) ==
    IF ~outcome.ok
    THEN Suspend(publish(M, response(frame.request, "stop")),
                 p, Append(rest, Frame("supervise@277", frame.request, outcome.reason,
                                       NoDispatch)))
    ELSE LET N == publish(M, response(frame.request, outcome.effect))
         IN  IF transitionAllowed(N.executors[p].fsm, "sleeping")
             THEN resume(Goto(N, p, "sleeping"), p, Append(rest, At("supervise@285")))
             ELSE Settle(N, p, rest, Throw("FSMInvariantError"))

\* Executor.supervise after its await of the "stop" response (lines 280-281).
superviseFailed(M, p, rest, frame, outcome) ==
    IF ~outcome.ok
    THEN Settle(M, p, rest, outcome)
    ELSE IF transitionAllowed(M.executors[p].fsm, "raising")
    THEN raise(Goto(M, p, "raising"), p, Append(rest, At("supervise@281")), frame.reason)
    ELSE Settle(M, p, rest, Throw("FSMInvariantError"))

\* Executor.raise after its await of context.supervise (lines 319-331).
raiseContinue(M, p, rest, frame, outcome) ==
    LET to == IF outcome.ok /\ outcome.effect = "resume" THEN "sleeping" ELSE "terminating"
    IN  IF outcome.ok /\ outcome.effect \notin Effects
        THEN Settle(M, p, rest, Throw("UnreachableInvariantError"))
        ELSE IF ~transitionAllowed(M.executors[p].fsm, to)
        THEN Settle(M, p, rest, Throw("FSMInvariantError"))
        ELSE IF ~outcome.ok
        THEN terminate(Goto(M, p, to), p, Append(rest, At("raise@321")), outcome.reason)
        ELSE IF outcome.effect = "resume"
        THEN resume(Goto(M, p, to), p, Append(rest, At("raise@325")))
        ELSE terminate(Goto([M EXCEPT !.executors[p].stopped = TRUE], p, to),
                       p, Append(rest, At("raise@329")), frame.reason)

\* Executor.terminate after its await of releaseProcess, with Executor.end
\* (lines 351-357).
terminateContinue(M, p, rest, outcome) ==
    IF ~outcome.ok
    THEN Settle(M, p, rest, outcome)
    ELSE IF transitionAllowed(M.executors[p].fsm, "end")
    THEN Settle(Goto(M, p, "end"), p, Append(rest, At("terminate@352")), Tick)
    ELSE Settle(M, p, rest, Throw("FSMInvariantError"))

\* The awaits that are inside the try of Executor.resume.
InTry == {"resume@243", "resume@250", "resume@257"}

\* The continuation of the innermost suspended frame of a chain.
Continue(M, p, stack, outcome) ==
    LET frame == stack[Len(stack)]
        rest == SubSeq(stack, 1, Len(stack) - 1)
    IN  CASE frame.at = "receive@294" -> receiveContinue(M, p, rest, frame, outcome)
          [] frame.at = "supervise@274" -> superviseContinue(M, p, rest, frame, outcome)
          [] frame.at = "supervise@277" -> superviseFailed(M, p, rest, frame, outcome)
          [] frame.at = "raise@318" -> raiseContinue(M, p, rest, frame, outcome)
          [] frame.at = "terminate@350" -> terminateContinue(M, p, rest, outcome)
          [] frame.at \in InTry /\ ~outcome.ok -> resumeCatch(M, p, rest, outcome.reason)
          [] OTHER -> Settle(M, p, rest, outcome)    \* return await: pass it on

(***************************************************************************)
(* Steps                                                                   *)
(***************************************************************************)
NoTask == [kind |-> "none"]

\* The objects of the utility classes as their constructors leave them.
NoCall == [op |-> "new", arg |-> "", error |-> NoError]
Units ==
    [fsm |-> FSM("start", allowedExecutorStateTransitions),
     deferred |-> Deferred,
     ref |-> Root,
     call |-> NoCall]

NoLast ==
    [op |-> "init", proc |-> Undefined, trans |-> <<>>, branch |-> "none",
     popped |-> NoRequest, invoked |-> NoValue, error |-> "", preempted |-> FALSE,
     task |-> NoTask]

\* The state after `new Host(self, context)`: an empty pool.
Constructed ==
    /\ executors = <<>>
    /\ pool = <<>>
    /\ net = {}
    /\ mq = <<>>
    /\ waiting = {}
    /\ nextId = 1
    /\ nextMsg = 1
    /\ creates = 0
    /\ kills = 0
    /\ last = NoLast
    /\ unit = Units

\* Every process of the model is placed on this Host.
Init ==
    /\ Constructed
    /\ cluster = [placed |-> Procs, messages |-> MaxMsgs, context |-> "executorContext"]

\* Only the child is placed on this Host; its parent lives on another Host.
InitRemoteParent ==
    /\ Constructed
    /\ cluster = [placed |-> {Child}, messages |-> MaxMsgsRemote,
                  context |-> "executorContext"]

\* The step leaves the state M, having run `op` for process p; `task` is the
\* microtask it ran, if it ran one.
Install(M, op, p, task) ==
    /\ executors' = M.executors
    /\ pool' = M.pool
    /\ net' = M.net
    /\ mq' = M.mq
    /\ waiting' = M.waiting
    /\ nextId' = M.nextId
    /\ unit' = unit
    /\ last' = [op |-> op, proc |-> p, trans |-> M.trans, branch |-> M.branch,
                popped |-> M.popped, invoked |-> M.invoked, error |-> M.error,
                preempted |-> M.preempted, task |-> task]

Fail(M, error) == [M EXCEPT !.error = error]

\* Executor.wake: the test and the resume are a microtask of their own.
wake(M, p) ==
    [M EXCEPT !.mq = Append(@, [kind |-> "wake", proc |-> p, orphan |-> FALSE,
                                spent |-> FALSE, stack |-> <<>>, outcome |-> Tick])]

\* Variant: pushMessage without the assertion on the state.
pushMessageAnyState(M, p, message) ==
    IF toString(p) # toString(message.receiver)
    THEN Fail(M, "ExecutorInvariantError")
    ELSE [M EXCEPT !.executors[p].messages = Append(@, message)]

\* Executor.pushMessage
pushMessage(M, p, message) ==
    IF M.executors[p].fsm = "end"
    THEN Fail(M, "FSMInvariantError")
    ELSE IF toString(p) # toString(message.receiver)
    THEN Fail(M, "ExecutorInvariantError")
    ELSE [M EXCEPT !.executors[p].messages = Append(@, message)]

\* Variant: pushSupervisionRequest without the assertion on the state.
pushSupervisionRequestAnyState(M, p, request) ==
    [M EXCEPT !.executors[p].requests = Append(@, request)]

\* Executor.pushSupervisionRequest
pushSupervisionRequest(M, p, request) ==
    IF M.executors[p].fsm = "end"
    THEN Fail(M, "FSMInvariantError")
    ELSE [M EXCEPT !.executors[p].requests = Append(@, request)]

\* The states in which a dispatch is in flight.
DispatchStates == {"receiving", "supervising", "raising"}

\* Variant: kill that terminates at once where the table allows it.
killPreemptive(M, p, reason) ==
    LET N == [M EXCEPT !.executors[p].hasTerminationBeenRequested = TRUE,
                       !.executors[p].terminationReason = reason,
                       !.executors[p].killedInDispatch =
                           @ \/ M.executors[p].fsm \in {"receiving", "supervising", "raising"}]
    IN  IF transitionAllowed(N.executors[p].fsm, "terminating")
        THEN wake(Goto(N, p, "terminating"), p)
        ELSE wake(N, p)

\* Executor.kill
kill(M, p, reason) ==
    wake([M EXCEPT !.executors[p].hasTerminationBeenRequested = TRUE,
                   !.executors[p].terminationReason = reason,
                   !.executors[p].killedInDispatch =
                       @ \/ M.executors[p].fsm \in DispatchStates], p)

\* Host.receiveMessage, given what Host.receive passes it.
receiveMessage(M, message) ==
    IF message.receiver = Undefined           \* keyOf reads undefined.url
    THEN Fail(M, "TypeError")
    ELSE IF ~hasProcess(M, message.receiver)
    THEN Fail(M, "HostInvariantError")
    ELSE LET N == pushMessage(M, message.receiver, message)
         IN  IF N.error # "" THEN N ELSE wake(N, message.receiver)

\* Host.receive of a Message packet (lines 94-96): receiveMessage is handed
\* the packet's payload.
ReceiveMessage ==
    /\ nextMsg <= cluster.messages
    /\ \E r \in cluster.placed : \E payload \in {Atom(nextMsg), Message(Root, r, nextMsg)} :
          /\ Install(receiveMessage(Cur, MessagePacket(Root, r, payload).payload),
                     "receiveMessage", r, NoTask)
          /\ nextMsg' = nextMsg + 1
          /\ UNCHANGED <<creates, kills, cluster>>

\* Variant: a mis-routed request is refused without an answer.
receiveSupervisionRequestSilent(M, request) ==
    LET parentRef == parent(request.child)
    IN  IF ~hasProcess(M, parentRef)
        THEN Fail(M, "HostInvariantError")
        ELSE LET N == pushSupervisionRequest(M, parentRef, request)
             IN  IF N.error # "" THEN N ELSE wake(N, parentRef)

\* Host.receiveSupervisionRequest
receiveSupervisionRequest(M, request) ==
    LET parentRef == parent(request.child)
    IN  IF ~hasProcess(M, parentRef)
        THEN Fail(publish(M, Response(request.id, request.child, "stop")),
                  "HostInvariantError")
        ELSE LET N == pushSupervisionRequest(M, parentRef, request)
             IN  IF N.error # "" THEN N ELSE wake(N, parentRef)

\* The transport delivers a published SupervisionRequest to Host.receive.
DeliverRequest ==
    \E request \in {x \in net : x.kind = "SupervisionRequest"} :
        /\ Install(receiveSupervisionRequest([Cur EXCEPT !.net = @ \ {request}], request),
                   "receiveSupervisionRequest", parent(request.child), NoTask)
        /\ UNCHANGED <<nextMsg, creates, kills, cluster>>

\* Variant: a response that matches no registered Deferred is dropped.
resolveDeferredLenient(M, resp) ==
    LET key == keyOf(resp.child)
    IN  IF ~hasProcess(M, resp.child)
        THEN M
        ELSE IF resp.id \notin DOMAIN M.pool[key]
        THEN M
        ELSE IF M.pool[key][resp.id] # "pending"
        THEN Fail(M, "FSMInvariantError")
        ELSE LET joined == {w \in M.waiting :
                               /\ w.proc = resp.child
                               /\ w.stack[Len(w.stack)].at = "raise@318"
                               /\ w.stack[Len(w.stack)].request.id = resp.id}
                 N == [M EXCEPT !.pool[key][resp.id] = "resolved",
                                !.waiting = @ \ joined]
             IN  IF joined = {} THEN N
                 ELSE LET w == CHOOSE x \in joined : TRUE
                      IN  Settle(N, w.proc, w.stack, Return(NoStance, resp.effect))

\* ExecutorPool.resolveDeferredSupervisionRequest with Deferred.resolve: the
\* chain that joined the Deferred continues with the response's effect.
resolveDeferredSupervisionRequest(M, resp) ==
    LET key == keyOf(resp.child)
    IN  IF ~hasProcess(M, resp.child)
        THEN Fail(M, "HostInvariantError")
        ELSE IF resp.id \notin DOMAIN M.pool[key]
        THEN Fail(M, "HostInvariantError")
        ELSE IF M.pool[key][resp.id] # "pending"
                \/ "resolved" \notin allowedStateTransitions[M.pool[key][resp.id]]
        THEN Fail(M, "FSMInvariantError")
        ELSE LET joined == {w \in M.waiting :
                               /\ w.proc = resp.child
                               /\ w.stack[Len(w.stack)].at = "raise@318"
                               /\ w.stack[Len(w.stack)].request.id = resp.id}
                 N == [M EXCEPT !.pool[key][resp.id] = "resolved",
                                !.waiting = @ \ joined]
             IN  IF joined = {} THEN N
                 ELSE LET w == CHOOSE x \in joined : TRUE
                      IN  Settle(N, w.proc, w.stack, Return(NoStance, resp.effect))

\* The transport delivers a published SupervisionResponse to Host.receive.
DeliverResponse ==
    \E resp \in {x \in net : x.kind = "SupervisionResponse"} :
        /\ Install(resolveDeferredSupervisionRequest([Cur EXCEPT !.net = @ \ {resp}], resp),
                   "receiveSupervisionResponse", resp.child, NoTask)
        /\ UNCHANGED <<nextMsg, creates, kills, cluster>>

\* new Executor(context, self, stance), lines 156-170
Executor(stance) ==
    [stance |-> stance, hasTerminationBeenRequested |-> FALSE,
     terminationReason |-> "undefined", children |-> {},
     messages |-> <<>>, requests |-> <<>>, fsm |-> "start",
     killedInDispatch |-> FALSE,   \* history: kill() was called mid-dispatch
     stopped |-> FALSE]            \* history: a raise was answered "stop"

\* Variant: receiveCreate over a pool whose insertProcess replaces an entry.
receiveCreateReplacing(M, child, stance) ==
    LET started == [Executor(stance) EXCEPT !.fsm = "sleeping"]
        N == [M EXCEPT !.executors = [q \in DOMAIN M.executors \cup {child} |->
                                         IF q = child THEN started ELSE M.executors[q]],
                       !.pool = [k \in DOMAIN M.pool \cup {keyOf(child)} |->
                                    IF k = keyOf(child) THEN <<>> ELSE M.pool[k]],
                       !.trans = <<<<"start", "sleeping">>>>]
    IN  wake(N, child)

\* Host.receiveCreate: the Executor is constructed, started and woken before
\* insertProcess tests whether the process is already in the pool.
receiveCreate(M, child, stance) ==
    IF hasProcess(M, child)
    THEN Fail([M EXCEPT !.mq = Append(@, [kind |-> "wake", proc |-> child, orphan |-> TRUE,
                                          spent |-> FALSE, stack |-> <<>>,
                                          outcome |-> Tick]),
                        !.trans = <<<<"start", "sleeping">>>>],
              "HostInvariantError")
    ELSE LET started == [Executor(stance) EXCEPT !.fsm = "sleeping"]
             N == [M EXCEPT !.executors = [q \in DOMAIN M.executors \cup {child} |->
                                              IF q = child THEN started ELSE M.executors[q]],
                            !.pool = [k \in DOMAIN M.pool \cup {keyOf(child)} |->
                                         IF k = keyOf(child) THEN <<>> ELSE M.pool[k]],
                            !.trans = <<<<"start", "sleeping">>>>]
         IN  wake(N, child)

ReceiveCreate ==
    /\ creates < MaxCreates
    /\ \E child \in cluster.placed :
          /\ Install(receiveCreate(Cur, child, InitialStance), "receiveCreate", child, NoTask)
          /\ creates' = creates + 1
          /\ UNCHANGED <<nextMsg, kills, cluster>>

\* Host.receiveTerminate
receiveTerminate(M, target, reason) ==
    IF ~hasProcess(M, target)
    THEN Fail(M, "HostInvariantError")
    ELSE kill(M, target, reason)

ReceiveTerminate ==
    /\ kills < MaxKills
    /\ \E target \in cluster.placed :
          /\ Install(receiveTerminate(Cur, target, "killed"), "receiveTerminate", target, NoTask)
          /\ kills' = kills + 1
          /\ UNCHANGED <<nextMsg, creates, cluster>>

\* The chains suspended at the await of source line `at`.
Suspended(at) == {w \in waiting : w.stack[Len(w.stack)].at = at}

\* The promise the chain w is suspended on is settled from outside the Executor.
Settled(w, outcome) ==
    Settle([Cur EXCEPT !.waiting = @ \ {w}], w.proc, w.stack, outcome)

\* The behavior returns the next stance or throws.
BehaviorSettles ==
    \E w \in Suspended("receive@294") :
        \E outcome \in {Return(s, "") : s \in Stances} \cup {Throw("boom")} :
            /\ Install(Settled(w, outcome), "behavior", w.proc, NoTask)
            /\ UNCHANGED <<nextMsg, creates, kills, cluster>>

\* The supervise strategy returns an effect or throws.
StrategySettles ==
    \E w \in Suspended("supervise@274") :
        \E outcome \in {Return(NoStance, e) : e \in Effects} \cup {Throw("boom")} :
            /\ Install(Settled(w, outcome), "strategy", w.proc, NoTask)
            /\ UNCHANGED <<nextMsg, creates, kills, cluster>>

\* The transport's publish of the "stop" response (line 277) completes.
PublishSettles ==
    \E w \in Suspended("supervise@277") :
        /\ Install(Settled(w, Tick), "published", w.proc, NoTask)
        /\ UNCHANGED <<nextMsg, creates, kills, cluster>>

\* History: the wakes of p still scheduled when one of them starts a resume
\* step were called before that step ran.
Spend(M, p) ==
    [M EXCEPT !.mq = [i \in DOMAIN M.mq |->
        IF M.mq[i].kind = "wake" /\ M.mq[i].proc = p /\ ~M.mq[i].orphan
        THEN [M.mq[i] EXCEPT !.spent = TRUE] ELSE M.mq[i]]]

\* Variant: a wake callback that resumes without testing the state.
wakeAlways(M, p) == resume(Spend(M, p), p, <<>>)

\* The callback wake() schedules (lines 200-204).
wakeTask(M, p) ==
    IF M.executors[p].fsm = "sleeping"
    THEN resume(Spend(M, p), p, <<>>)
    ELSE M

\* A just constructed Executor that receiveCreate did not insert: its wake
\* finds it sleeping with nothing to do.
orphanTask(M) ==
    IF transitionAllowed("sleeping", "sleeping")
    THEN [M EXCEPT !.trans = <<<<"sleeping", "sleeping">>>>]
    ELSE [M EXCEPT !.error = "FSMInvariantError"]

\* The microtask of a wake.
RunWake ==
    /\ mq # <<>>
    /\ Head(mq).kind = "wake"
    /\ LET t == Head(mq)
           M == [Cur EXCEPT !.mq = Tail(@)]
       IN  /\ IF t.orphan
              THEN Install(orphanTask(M), "wakeOrphan", Undefined, t)
              ELSE Install(wakeTask(M, t.proc), "wake", t.proc, t)
           /\ UNCHANGED <<nextMsg, creates, kills, cluster>>

\* The microtask that continues an await.
RunContinuation ==
    /\ mq # <<>>
    /\ Head(mq).kind = "cont"
    /\ LET t == Head(mq)
           M == Continue([Cur EXCEPT !.mq = Tail(@)], t.proc, t.stack, t.outcome)
       IN  /\ M.nextId <= MaxIds + 1
           /\ Install(M, t.stack[Len(t.stack)].at, t.proc, t)
           /\ UNCHANGED <<nextMsg, creates, kills, cluster>>

\* A SupervisionRequest whose parent is placed on another Host is handled by
\* that Host's receiveSupervisionRequest: the parent's strategy there answers
\* with an effect, which comes back as a SupervisionResponse.
RemoteAnswer ==
    \E request \in {x \in net : x.kind = "SupervisionRequest"} :
        /\ parent(request.child) \notin cluster.placed
        /\ \E effect \in Effects :
              Install([Cur EXCEPT !.net = (@ \ {request}) \cup {response(request, effect)}],
                      "remote", parent(request.child), NoTask)
        /\ UNCHANGED <<nextMsg, creates, kills, cluster>>

\* The steps that need no parent on this Host.
Local ==
    \/ ReceiveCreate
    \/ ReceiveMessage
    \/ ReceiveTerminate
    \/ DeliverRequest
    \/ DeliverResponse
    \/ BehaviorSettles
    \/ RunWake
    \/ RunContinuation

Next ==
    \/ Local
    \/ StrategySettles
    \/ PublishSettles

NextRemoteParent ==
    \/ Local
    \/ RemoteAnswer

Spec == Init /\ [][Next]_vars

SpecRemoteParent == InitRemoteParent /\ [][NextRemoteParent]_vars

(***************************************************************************)
(* The Executor called directly: its public methods by any caller, send    *)
(* and spawn by user code through the context handed to it.                *)
(***************************************************************************)
\* The methods Executor's constructor binds to the Executor (lines 156-170).
BoundExecutorMethods == {}

\* What Process.Reference declares.
ReferenceMembers == {"url", "parent"}

\* Host.createProcess
createProcess(M, parentRef, stance, name) ==
    IF "child" \notin ReferenceMembers
    THEN Fail(M, "TypeError")
    ELSE publish(M, Create(childOf(parentRef, name), stance))

\* Executor.send as user code calls it, through the dictionary that
\* processContext returns: a method the constructor did not bind runs with the
\* dictionary as `this`, which has no fsm.
send(M, p, target, payload) ==
    IF "send" \notin BoundExecutorMethods
    THEN Fail(M, "TypeError")
    ELSE IF M.executors[p].fsm # "receiving"
    THEN Fail(M, "FSMInvariantError")
    ELSE publish(M, MessagePacket(p, target, payload))

\* Executor.spawn as user code calls it.
spawn(M, p, stance, name) ==
    IF "spawn" \notin BoundExecutorMethods
    THEN Fail(M, "TypeError")
    ELSE IF M.executors[p].fsm # "receiving"
    THEN Fail(M, "FSMInvariantError")
    ELSE createProcess(M, p, stance, name)

\* The chains that are inside user code: a behavior or a supervise strategy
\* that has been handed a context and has not settled yet.
InUserCode == Suspended("receive@294") \cup Suspended("supervise@274")

\* User code calls context.send.
CallSend ==
    \E w \in InUserCode : \E target \in Procs :
        /\ Install(send(Cur, w.proc, target, NoValue), "send", w.proc, NoTask)
        /\ UNCHANGED <<nextMsg, creates, kills, cluster>>

\* User code calls context.spawn.
CallSpawn ==
    \E w \in InUserCode :
        /\ Install(spawn(Cur, w.proc, InitialStance, "d"), "spawn", w.proc, NoTask)
        /\ UNCHANGED <<nextMsg, creates, kills, cluster>>

\* A caller hands any Message to the pushMessage of any Executor.
CallPushMessage ==
    /\ nextMsg <= cluster.messages
    /\ \E p \in DOMAIN executors : \E receiver \in Procs :
          /\ Install(pushMessage(Cur, p, Message(Root, receiver, nextMsg)),
                     "pushMessage", p, NoTask)
          /\ nextMsg' = nextMsg + 1
          /\ UNCHANGED <<creates, kills, cluster>>

NextCalls ==
    \/ Next
    \/ CallSend
    \/ CallSpawn
    \/ CallPushMessage

\* The Executors are constructed with a Context whose releaseProcess resolves.
InitCalls ==
    /\ Constructed
    /\ cluster = [placed |-> Procs, messages |-> MaxMsgsCalls, context |-> "resolving"]

SpecCalls == InitCalls /\ [][NextCalls]_vars

\* A holder of the context dictionary calls createProcess, which the Host's
\* constructor has bound (Worker.ts:80), with the reference of an Executor of
\* the pool as parent.
CallCreateProcess ==
    \E p \in DOMAIN executors :
        /\ Install(createProcess(Cur, p, InitialStance, "d"), "createProcess", p, NoTask)
        /\ UNCHANGED <<nextMsg, creates, kills, cluster>>

\* Host.supervise up to its await of publish, as a direct caller starts it:
\* nothing of an Executor waits for the Deferred.
hostSupervise(M, request) ==
    IF insertDeferredRejected(M, request)
    THEN Fail(M, "HostInvariantError")
    ELSE publish(insertDeferredSupervisionRequest(M, request), request)

\* A holder of the context dictionary calls supervise, which the Host's
\* constructor has bound (Worker.ts:85), with any request.  The step records
\* the request in last.task.
CallSupervise ==
    \E child \in Procs : \E id \in 1..MaxCallIds :
        LET request == Request(id, child, "other")
        IN  /\ Install(hostSupervise(Cur, request), "supervise", child,
                       [kind |-> "packet", packet |-> request])
            /\ UNCHANGED <<nextMsg, creates, kills, cluster>>

NextContext ==
    \/ NextCalls
    \/ CallCreateProcess

\* Supervision on its own: processes are created, requests are registered
\* by direct calls and by the raises that follow a failed strategy or a
\* failed idle resume, and are delivered, handled and answered.
NextSupervise ==
    \/ ReceiveCreate
    \/ CallSupervise
    \/ DeliverRequest
    \/ DeliverResponse
    \/ StrategySettles
    \/ PublishSettles
    \/ RunWake
    \/ RunContinuation

SpecSupervise == Init /\ [][NextSupervise]_vars

\* As InitCalls, with one message.
InitContext ==
    /\ Constructed
    /\ cluster = [placed |-> Procs, messages |-> MaxMsgsContext, context |-> "resolving"]

SpecContext == InitContext /\ [][NextContext]_vars

(***************************************************************************)
(* A transport that hands Host.receive a SupervisionResponse that answers  *)
(* no waiting request of this Host (mis-routed, late or duplicated): its   *)
(* child has no pool entry, or its id is not registered under it, or the   *)
(* Deferred of that id is resolved already.  Host.receive is public and    *)
(* takes whatever packet it is handed.  The step records the packet in     *)
(* last.task.                                                              *)
(***************************************************************************)
StrayResponse ==
    \E child \in Procs : \E id \in 1..MaxIds : \E effect \in Effects :
        LET resp == Response(id, child, effect)
        IN  /\ hasProcess(Cur, child) =>
                   (IF id \in DOMAIN pool[keyOf(child)]
                    THEN pool[keyOf(child)][id] = "resolved" ELSE TRUE)
            /\ Install(resolveDeferredSupervisionRequest(Cur, resp),
                       "receiveSupervisionResponse", child,
                       [kind |-> "packet", packet |-> resp])
            /\ UNCHANGED <<nextMsg, creates, kills, cluster>>

NextStray ==
    \/ Next
    \/ StrayResponse

\* As Init, with one message.
InitStray ==
    /\ Constructed
    /\ cluster = [placed |-> Procs, messages |-> MaxMsgsStray, context |-> "executorContext"]

SpecStray == InitStray /\ [][NextStray]_vars

(***************************************************************************)
(* A transport that may fail: the promise of context.publish(request) in   *)
(* Host.supervise (Worker.ts:204) rejects, and Host.supervise, which does  *)
(* not catch, rejects with the same error.  The Deferred it inserted stays *)
(* in the pool.                                                            *)
(***************************************************************************)
PublishFails ==
    \E w \in Suspended("raise@318") :
        LET request == w.stack[Len(w.stack)].request
        IN  /\ request \in net
            /\ Install(Settle([Cur EXCEPT !.waiting = @ \ {w}, !.net = @ \ {request}],
                               w.proc, w.stack, Throw("TransportError")),
                       "publishFailed", w.proc, NoTask)
            /\ UNCHANGED <<nextMsg, creates, kills, cluster>>

NextTransport ==
    \/ Next
    \/ PublishFails

SpecTransport == Init /\ [][NextTransport]_vars

(***************************************************************************)
(* The utility classes on their own: FSM, Deferred and the references.     *)
(***************************************************************************)
Names == {"x", "y"}

RECURSIVE Paths(_)
Paths(n) ==
    IF n = 0 THEN {<<>>}
    ELSE Paths(n - 1) \cup {Append(q, name) : q \in Paths(n - 1), name \in Names}

\* The references "proc://a<path>" of at most MaxDepth segments, with or
\* without a trailing slash.
Refs ==
    (Paths(MaxDepth) \ {<<>>}) \cup {Append(q, "") : q \in Paths(MaxDepth - 1)}

Called(op, arg, error) == [op |-> op, arg |-> arg, error |-> error]

NewFSM ==
    /\ unit' = [unit EXCEPT !.fsm = FSM("start", allowedExecutorStateTransitions),
                            !.call = Called("FSM", "start", NoError)]
    /\ UNCHANGED hostVars

TransitionTo ==
    \E nextState \in ExecutorStates :
        LET t == transitionTo(unit.fsm, nextState)
        IN  /\ unit' = [unit EXCEPT !.fsm = t.fsm,
                                    !.call = Called("transitionTo", nextState, t.error)]
            /\ UNCHANGED hostVars

NewDeferred ==
    /\ unit' = [unit EXCEPT !.deferred = Deferred, !.call = Called("Deferred", "", NoError)]
    /\ UNCHANGED hostVars

DeferredResolve ==
    \E result \in Effects :
        LET r == resolve(unit.deferred, result)
        IN  /\ unit' = [unit EXCEPT !.deferred = r.deferred,
                                    !.call = Called("resolve", result, r.error)]
            /\ UNCHANGED hostVars

DeferredReject ==
    \E reason \in {"boom"} :
        LET r == reject(unit.deferred, reason)
        IN  /\ unit' = [unit EXCEPT !.deferred = r.deferred,
                                    !.call = Called("reject", reason, r.error)]
            /\ UNCHANGED hostVars

\* new Reference(new URL(...))
NewReference ==
    \E ref \in Refs :
        /\ unit' = [unit EXCEPT !.ref = ref, !.call = Called("Reference", "", NoError)]
        /\ UNCHANGED hostVars

\* ref.child(name)
ReferenceChild ==
    \E name \in Names :
        /\ unit' = [unit EXCEPT !.ref = childOf(unit.ref, name),
                                !.call = Called("child", name, NoError)]
        /\ UNCHANGED hostVars

\* ref.parent
ReferenceParent ==
    /\ unit' = [unit EXCEPT !.ref = parent(unit.ref), !.call = Called("parent", "", NoError)]
    /\ UNCHANGED hostVars

NextUtil ==
    \/ NewFSM
    \/ TransitionTo
    \/ NewDeferred
    \/ DeferredResolve
    \/ DeferredReject
    \/ NewReference
    \/ ReferenceChild
    \/ ReferenceParent

\* No process is placed on the Host: only the utility objects are used.
InitUtil ==
    /\ Constructed
    /\ cluster = [placed |-> {}, messages |-> 0, context |-> "executorContext"]

SpecUtil == InitUtil /\ [][NextUtil]_vars

(***************************************************************************)
(* Claims                                                                  *)
(***************************************************************************)
\* The chains of process p that are suspended on something outside it.
Chains(p) == {w \in waiting : w.proc = p}

\* Nothing of process p is in flight: no suspended chain, no microtask.
Quiet(p) == Chains(p) = {} /\ \A i \in DOMAIN mq : mq[i].proc # p

\* The transitions of a step lead from state `from` to state `to`.
Chained(trans, from, to) ==
    /\ trans # <<>>
    /\ trans[1][1] = from
    /\ trans[Len(trans)][2] = to
    /\ \A i \in 1..(Len(trans) - 1) : trans[i][2] = trans[i + 1][1]

\* C1: every change of an Executor's FSM state is made of transitions of the
\* declared table, a new Executor goes start->sleeping, and the only declared
\* way into 'end' is from 'terminating'.
C1_DeclaredTransitions ==
    [][ /\ \A i \in DOMAIN last'.trans :
              last'.trans[i][2] \in allowedExecutorStateTransitions[last'.trans[i][1]]
        /\ \A p \in DOMAIN executors :
              executors'[p].fsm # executors[p].fsm
                  => /\ last'.proc = p
                     /\ Chained(last'.trans, executors[p].fsm, executors'[p].fsm)
        /\ \A p \in DOMAIN executors' \ DOMAIN executors :
              /\ last'.trans = <<<<"start", "sleeping">>>>
              /\ executors'[p].fsm = "sleeping"
        /\ \A p \in DOMAIN executors :
              executors'[p].fsm = "end" /\ executors[p].fsm # "end"
                  => last'.trans[Len(last'.trans)] = <<"terminating", "end">>
        /\ \A state \in ExecutorStates :
              "end" \in allowedExecutorStateTransitions[state] => state = "terminating"
      ]_vars

\* C1 witness: a step made two transitions in a row (a dispatch completed and
\* the next one started).
C1_Witness ==
    /\ Len(last.trans) = 2
    /\ last.trans[1] = <<"receiving", "sleeping">>
    /\ last.trans[2] = <<"sleeping", "receiving">>

\* C2: a resume step taken in 'sleeping' without termination requested and
\* with both queues non-empty dequeues the front supervision request, goes to
\* 'supervising' and leaves the messages alone; a message is dispatched only
\* by a resume step that found the requests queue empty.
C2_SupervisionPriority ==
    [][ \A p \in DOMAIN executors :
          (last'.proc = p /\ last'.branch # "none"
             /\ ~executors[p].hasTerminationBeenRequested)
          => /\ (executors[p].requests # <<>> /\ executors[p].messages # <<>>)
                   => /\ last'.branch = "supervise"
                      /\ last'.popped = Head(executors[p].requests)
                      /\ executors'[p].requests = Tail(executors[p].requests)
                      /\ executors'[p].messages = executors[p].messages
                      /\ executors'[p].fsm = "supervising"
             /\ last'.branch = "receive" => executors[p].requests = <<>>
      ]_vars

\* C2 witness: a request has just been dequeued while a message was waiting.
C2_Witness ==
    /\ last.branch = "supervise"
    /\ last.proc \in DOMAIN executors
    /\ executors[last.proc].messages # <<>>
    /\ executors[last.proc].fsm = "supervising"

\* C7: a resume step taken in 'sleeping' once kill has been called goes to
\* 'terminating', whatever is queued: it dequeues nothing and invokes neither
\* the behavior nor the supervise strategy.
C7_TerminationWins ==
    (/\ last.proc \in DOMAIN executors
     /\ last.branch # "none"
     /\ executors[last.proc].hasTerminationBeenRequested)
    => /\ last.branch = "terminate"
       /\ last.popped = NoRequest
       /\ last.invoked = NoValue
       /\ <<"sleeping", "terminating">> = last.trans[Len(last.trans)]

\* C7 witness: termination has just been chosen over queued work.
C7_Witness ==
    /\ last.branch = "terminate"
    /\ last.proc \in DOMAIN executors
    /\ executors[last.proc].messages # <<>>
    /\ executors[last.proc].requests # <<>>

\* A step uses both queues of every Executor first in, first out: it either
\* appends one entry at the back (a Host.receive) or removes the front entry
\* (the resume step that dispatches it).
FifoStep ==
    \A p \in DOMAIN executors :
        /\ executors'[p].messages # executors[p].messages
              => \/ /\ last'.op = "receiveMessage"
                    /\ Len(executors'[p].messages) = Len(executors[p].messages) + 1
                    /\ SubSeq(executors'[p].messages, 1, Len(executors[p].messages))
                          = executors[p].messages
                 \/ /\ last'.branch = "receive"
                    /\ executors[p].messages # <<>>
                    /\ last'.popped = Head(executors[p].messages)
                    /\ executors'[p].messages = Tail(executors[p].messages)
        /\ executors'[p].requests # executors[p].requests
              => \/ /\ last'.op = "receiveSupervisionRequest"
                    /\ Len(executors'[p].requests) = Len(executors[p].requests) + 1
                    /\ SubSeq(executors'[p].requests, 1, Len(executors[p].requests))
                          = executors[p].requests
                 \/ /\ last'.branch = "supervise"
                    /\ executors[p].requests # <<>>
                    /\ last'.popped = Head(executors[p].requests)
                    /\ executors'[p].requests = Tail(executors[p].requests)

\* The order part of C3 alone: entries leave each queue in the order they
\* entered it.
QueuesAreFifo == [][FifoStep]_vars

\* C3: messages for one receiver are dispatched in the order Host.receive got
\* them, each dispatch invoking the behavior with the payload of the Message
\* packet that Host.receive was given (the entry it enqueued); supervision
\* requests are handled in enqueue order.
C3_MessageFifo ==
    [][FifoStep /\ (last'.branch = "receive" => last'.invoked = last'.popped)]_vars

\* C4: at most one activity (receive, supervise, raise or terminate) of an
\* Executor is in flight: no process has two call chains suspended at once.
C4_OneDispatchAtATime ==
    \A p \in Procs : Cardinality(Chains(p)) <= 1

C8_TerminationCompletes ==
    \A p \in DOMAIN executors :
        executors[p].hasTerminationBeenRequested /\ Quiet(p)
            => executors[p].fsm = "end" /\ ~hasProcess(Cur, p)

\* C9: when the raise of a failed dispatch is answered "resume", the Executor
\* goes raising->sleeping with the stance the message was dispatched with, the
\* failed message is not dispatched again, the process stays in the pool, and
\* the next queued message is dispatched.
C9_SupervisionResume ==
    [][ (/\ last'.op = "raise@318"
         /\ last'.task.outcome.ok
         /\ last'.task.outcome.effect = "resume"
         /\ Len(last'.task.stack) >= 2
         /\ last'.task.stack[Len(last'.task.stack) - 1].at = "receive@301")
        => LET p == last'.proc
               d == last'.task.stack[Len(last'.task.stack) - 1].dispatch
           IN  /\ executors[p].fsm = "raising"
               /\ last'.trans # <<>>
               /\ last'.trans[1] = <<"raising", "sleeping">>
               /\ executors[p].stance = d.stance
               /\ executors'[p].stance = d.stance
               /\ hasProcess([pool |-> pool'], p)
               /\ \A i \in DOMAIN executors[p].messages :
                      executors[p].messages[i] # d.message
               /\ last'.popped # d.message
               /\ (/\ ~executors[p].hasTerminationBeenRequested
                   /\ executors[p].requests = <<>>
                   /\ executors[p].messages # <<>>)
                  => /\ last'.branch = "receive"
                     /\ last'.popped = Head(executors[p].messages)
                     /\ last'.invoked = payloadOf(Head(executors[p].messages))
                     /\ executors'[p].fsm = "receiving"
      ]_vars

\* C10: once nothing of a process whose raise was answered "stop" is in
\* flight any more, its Executor is in 'end' and the pool no longer contains
\* it; a Message for it that Host.receive gets then is refused.
C10_SupervisionStop ==
    \A p \in DOMAIN executors :
        executors[p].stopped
            => /\ Quiet(p) => executors[p].fsm = "end" /\ ~hasProcess(Cur, p)
               /\ (last.op = "receiveMessage" /\ last.proc = p /\ Chains(p) = {}
                      /\ \A i \in DOMAIN mq : mq[i].proc = p => mq[i].kind = "wake")
                     => last.error # ""

\* C11: when the supervise strategy of a parent fails on request r, the step
\* that sees the failure publishes response(r, "stop") and nothing else and
\* makes no transition; the later step that continues after that publish goes
\* supervising->raising and publishes the parent's own request, which carries
\* the strategy's reason.
C11_StopBeforeOwnRequest ==
    [][ LET p == last'.proc
            frame == last'.task.stack[Len(last'.task.stack)]
        IN  /\ (last'.op = "supervise@274" /\ ~last'.task.outcome.ok)
                  => /\ net' \ net = {response(frame.request, "stop")}
                     /\ last'.trans = <<>>
                     /\ executors'[p].fsm = executors[p].fsm
                     /\ \E w \in waiting' \ waiting :
                           /\ w.proc = p
                           /\ w.stack[Len(w.stack)].at = "supervise@277"
                           /\ w.stack[Len(w.stack)].reason = last'.task.outcome.reason
            /\ last'.op = "supervise@277"
                  => /\ last'.trans = <<<<"supervising", "raising">>>>
                     /\ net' \ net = {Request(nextId, p, frame.reason)}
                     /\ response(frame.request, "stop") \notin net' \ net
      ]_vars

\* The transport delivers every packet it was handed, user code and the
\* transport settle the promises they own, and the microtask queue runs.
Fairness ==
    /\ WF_vars(DeliverRequest)
    /\ WF_vars(DeliverResponse)
    /\ WF_vars(BehaviorSettles)
    /\ WF_vars(StrategySettles)
    /\ WF_vars(PublishSettles)
    /\ WF_vars(RunWake)
    /\ WF_vars(RunContinuation)

SpecLive == Spec /\ Fairness

\* The parent of the child is not (or no longer) a live local process.
ParentGone ==
    parent(Child) \in DOMAIN executors
        /\ \/ executors[parent(Child)].hasTerminationBeenRequested
           \/ executors[parent(Child)].fsm \in {"terminating", "end"}

\* A supervise strategy has failed instead of returning.
StrategyFailed == last.op = "supervise@274" /\ ~last.task.outcome.ok

\* The next continuation would draw a Supervision.Id beyond the bound.
IdsExhausted ==
    /\ mq # <<>>
    /\ Head(mq).kind = "cont"
    /\ Continue([Cur EXCEPT !.mq = Tail(@)], Head(mq).proc, Head(mq).stack,
                Head(mq).outcome).nextId > MaxIds + 1

ChildRaising == Child \in DOMAIN executors /\ executors[Child].fsm = "raising"

\* C12: with every packet delivered and a parent that is local, alive and
\* whose strategy returns, a child that enters 'raising' eventually leaves it.
C12_RoundTripLive ==
    \/ <>(ParentGone \/ StrategyFailed \/ IdsExhausted)
    \/ (ChildRaising ~> ~ChildRaising)

\* C13: every message in an Executor's messages queue has that Executor's
\* process as its receiver (pushMessage having refused every other message).
C13_ReceiverIsSelf ==
    \A p \in DOMAIN executors :
        \A i \in DOMAIN executors[p].messages : executors[p].messages[i].receiver = p

\* The step called pushMessage or pushSupervisionRequest of the Executor of p.
Pushed(p) ==
    /\ last'.proc = p
    /\ \/ last'.op \in {"pushMessage", "receiveSupervisionRequest"}
       \/ last'.op = "receiveMessage" /\ last'.error # "TypeError"

\* C14: a pushMessage or a pushSupervisionRequest on an Executor in 'end'
\* fails with an FSM invariant error and leaves both queues as they were.
C14_NoPushAfterEnd ==
    [][ \A p \in DOMAIN executors :
          (executors[p].fsm = "end" /\ Pushed(p))
             => /\ last'.error = "FSMInvariantError"
                /\ executors'[p].messages = executors[p].messages
                /\ executors'[p].requests = executors[p].requests
      ]_vars

\* C14 witness: a supervision request has just been refused by a parent whose
\* Executor is in 'end'.
C14_Witness ==
    /\ last.op = "receiveSupervisionRequest"
    /\ last.proc \in DOMAIN executors
    /\ executors[last.proc].fsm = "end"
    /\ last.error = "FSMInvariantError"

\* C15: an Executor in 'end' stays in 'end' with the same stance and the same
\* queues, and no step invokes its behavior or its supervise strategy.
C15_EndIsAbsorbing ==
    [][ \A p \in DOMAIN executors :
          executors[p].fsm = "end"
             => /\ executors'[p].fsm = "end"
                /\ executors'[p].stance = executors[p].stance
                /\ executors'[p].messages = executors[p].messages
                /\ executors'[p].requests = executors[p].requests
                /\ last'.proc = p
                      => /\ last'.invoked = NoValue
                         /\ last'.branch \notin {"receive", "supervise"}
                         /\ last'.op # "receiveCreate" => last'.trans = <<>>
                /\ \A w \in waiting' \ waiting :
                      w.proc = p => w.stack[Len(w.stack)].at \notin {"receive@294", "supervise@274"}
      ]_vars

\* C15 witness: the callback of a wake has just run for a killed Executor that
\* is in 'end' with a message still queued.
C15_Witness ==
    /\ last.op = "wake"
    /\ last.proc \in DOMAIN executors
    /\ executors[last.proc].fsm = "end"
    /\ executors[last.proc].hasTerminationBeenRequested
    /\ executors[last.proc].messages # <<>>

\* C16: the pool has one entry per process reference; a SchedulingCreate for
\* a process that is in the pool fails with a Host invariant error and leaves
\* the pool (the registered Executor and its deferreds) as it was, and one for
\* a process that is not in the pool registers a started Executor.
C16_OneExecutorPerProcess ==
    [][ /\ \A p, q \in DOMAIN executors' : keyOf(p) = keyOf(q) => p = q
        /\ last'.op = "receiveCreate"
              => IF hasProcess(Cur, last'.proc)
                 THEN /\ last'.error = "HostInvariantError"
                      /\ pool' = pool
                      /\ executors' = executors
                 ELSE /\ last'.error = ""
                      /\ DOMAIN pool' = DOMAIN pool \cup {keyOf(last'.proc)}
                      /\ pool'[keyOf(last'.proc)] = <<>>
                      /\ executors'[last'.proc].fsm = "sleeping"
                      /\ \A k \in DOMAIN pool : pool'[k] = pool[k]
      ]_vars

\* C16 witness: a SchedulingCreate has just been refused for a process whose
\* pool entry holds a pending deferred.
C16_Witness ==
    /\ last.op = "receiveCreate"
    /\ last.error = "HostInvariantError"
    /\ \E id \in DOMAIN pool[keyOf(last.proc)] : pool[keyOf(last.proc)][id] = "pending"

\* The errors that are invariant errors (subclasses of InvariantError).
InvariantErrors ==
    {"FSMInvariantError", "ExecutorInvariantError", "HostInvariantError",
     "UnreachableInvariantError"}

\* C17: a call of context.send or context.spawn made while the Executor is
\* not in 'receiving' fails with an invariant error and publishes nothing.
C17_SendSpawnOnlyWhileReceiving ==
    [][ (last'.op \in {"send", "spawn"} /\ executors[last'.proc].fsm # "receiving")
           => /\ last'.error \in InvariantErrors
              /\ net' = net
      ]_vars

\* C18: a resolve or a reject on a Deferred that is not 'pending' fails with
\* an FSM invariant error and leaves its state and the promise of join() as
\* the first settlement made them; on a pending Deferred it makes the declared
\* transition and settles the promise with its argument.
C18_DeferredSettlesOnce ==
    [][ unit'.call.op \in {"resolve", "reject"}
          => IF unit.deferred.fsm.state # "pending"
             THEN /\ unit'.call.error.kind = "FSMInvariantError"
                  /\ unit'.deferred.fsm.state = unit.deferred.fsm.state
                  /\ join(unit'.deferred) = join(unit.deferred)
             ELSE /\ unit'.call.error = NoError
                  /\ unit'.deferred.fsm.state
                        = (IF unit'.call.op = "resolve" THEN "resolved" ELSE "rejected")
                  /\ unit'.deferred.fsm.state \in allowedStateTransitions["pending"]
                  /\ join(unit'.deferred)
                        = [state |-> IF unit'.call.op = "resolve" THEN "fulfilled"
                                     ELSE "rejected",
                           value |-> unit'.call.arg]
      ]_vars

\* C18 witness: a Deferred resolved with "resume" has just refused a resolve
\* with "stop".
C18_Witness ==
    /\ unit.call = Called("resolve", "stop",
                          InvariantError("FSMInvariantError", "Assertion not matched"))
    /\ unit.deferred.fsm.state = "resolved"
    /\ join(unit.deferred) = [state |-> "fulfilled", value |-> "resume"]

\* C19: transitionTo(next) with next outside the declared successors of the
\* current state fails with an FSM invariant error whose message names both
\* states and leaves the state as it was; with a declared successor it
\* returns normally and the state is next.
C19_TransitionTo ==
    [][ unit'.call.op = "transitionTo"
          => LET state == unit.fsm.state
                 nextState == unit'.call.arg
             IN  IF nextState \in allowedExecutorStateTransitions[state]
                 THEN /\ unit'.call.error = NoError
                      /\ unit'.fsm.state = nextState
                 ELSE /\ unit'.call.error.kind = "FSMInvariantError"
                      /\ unit'.call.error.message
                            = "FSMInvariantError: Transition from '" \o state \o "' to '"
                                \o nextState \o "' is not allowed"
                      /\ unit'.fsm.state = state
      ]_vars

\* C19 witness: 'terminating' has just refused a transition to 'sleeping'.
C19_Witness ==
    /\ unit.call.op = "transitionTo"
    /\ unit.call.arg = "sleeping"
    /\ unit.fsm.state = "terminating"
    /\ unit.call.error.message
          = "FSMInvariantError: Transition from 'terminating' to 'sleeping' is not allowed"

\* C20: the parent of the child that r.child(n) returns is r.
C20_ChildParentRoundTrip ==
    [][unit'.call.op = "child" => parent(unit'.ref) = unit.ref]_vars

\* The frames of every call chain, suspended or about to continue.
Frames ==
    UNION {{w.stack[i] : i \in DOMAIN w.stack} : w \in waiting}
        \cup UNION {{mq[j].stack[i] : i \in DOMAIN mq[j].stack} : j \in DOMAIN mq}

\* The supervision requests that exist: in transit, queued on a parent, or
\* held by a call chain that raised or is handling them.
Requests ==
    ({x \in net : x.kind = "SupervisionRequest"}
        \cup UNION {{executors[p].requests[i] : i \in DOMAIN executors[p].requests} :
                       p \in DOMAIN executors}
        \cup {f.request : f \in Frames}) \ {NoRequest}

\* C21: every SupervisionResponse a step publishes carries the id and the
\* child of a request that exists, and requests with equal ids have equal
\* children; so a request and a response with equal ids name the same child.
C21_ResponseMatchesRequest ==
    [][ /\ \A resp \in {x \in net' \ net : x.kind = "SupervisionResponse"} :
              \E req \in Requests : resp.id = req.id /\ resp.child = req.child
        /\ \A req \in Requests' :
              \A other \in Requests' \cup {x \in net' : x.kind = "SupervisionResponse"} :
                  req.id = other.id => req.child = other.child
      ]_vars

\* C21 witness: a parent's strategy has returned and the response to its
\* child's request has just been published while another request exists.
C21_Witness ==
    /\ last.op = "supervise@274"
    /\ \E resp \in net : resp.kind = "SupervisionResponse" /\ resp.child = Child
    /\ \E req \in Requests : req.child = Root

\* C22: a resume step taken in 'sleeping' with no termination requested and
\* both queues empty leaves the Executor in 'sleeping', fails with nothing,
\* passes no rejection to its caller and publishes nothing.
C22_IdleResume ==
    [][ last'.branch = "idle"
          => /\ executors'[last'.proc].fsm = "sleeping"
             /\ last'.error = ""
             /\ net' = net
             /\ \A j \in DOMAIN mq' :
                   (mq'[j].kind = "cont" /\ mq'[j].proc = last'.proc) => mq'[j].outcome.ok
      ]_vars

\* The step continues a behavior that threw, or a supervise strategy that
\* threw (after the "stop" response for it was published).
UserCodeThrew ==
    \/ last'.op = "receive@294" /\ ~last'.task.outcome.ok
    \/ last'.op = "supervise@277"

\* C23: a step takes an Executor into 'raising', or publishes a
\* SupervisionRequest, only when that Executor's behavior or supervise
\* strategy has thrown.
C23_RaiseOnlyOnUserFailure ==
    [][ /\ (\E i \in DOMAIN last'.trans : last'.trans[i][2] = "raising") => UserCodeThrew
        /\ (\E x \in net' \ net : x.kind = "SupervisionRequest") => UserCodeThrew
      ]_vars

\* C24: Host.receive of a Message packet whose receiver has an Executor in the
\* pool appends that packet to the end of the receiver's message queue and
\* schedules a wake of it; when the receiver has no Executor the call fails
\* with an invariant error and no Executor changes.
C24_ReceiveMessageRoutes ==
    [][last'.op = "receiveMessage" =>
          LET r == last'.proc
          IN  IF hasProcess(Cur, r)
              THEN /\ \E payload \in {Atom(nextMsg), Message(Root, r, nextMsg)} :
                         executors'[r].messages =
                             Append(executors[r].messages, MessagePacket(Root, r, payload))
                   /\ Len(mq') = Len(mq) + 1
                   /\ mq'[Len(mq')].kind = "wake"
                   /\ mq'[Len(mq')].proc = r
              ELSE /\ last'.error \in InvariantErrors
                   /\ executors' = executors]_vars

\* C25: when the behavior has completed normally with stance s, the Executor
\* takes s as its stance and goes from 'receiving' to 'sleeping' in the same
\* run; the context built for a dispatch carries the stance the Executor has
\* then; and the stance changes in no state other than 'receiving'.
C25_StanceFollowsBehavior ==
    [][/\ (last'.op = "receive@294" /\ last'.task.outcome.ok) =>
              /\ executors'[last'.proc].stance = last'.task.outcome.stance
              /\ last'.trans # <<>>
              /\ last'.trans[1] = <<"receiving", "sleeping">>
       /\ \A w \in waiting' \ waiting :
              w.stack[Len(w.stack)].at = "receive@294" =>
                  w.stack[Len(w.stack)].dispatch.stance = executors'[w.proc].stance
       /\ \A p \in DOMAIN executors \cap DOMAIN executors' :
              executors'[p].stance # executors[p].stance =>
                  executors[p].fsm = "receiving"]_vars

\* The part of C25 that does not depend on the run after the behavior: the
\* stance changes only in 'receiving', and a dispatch reads the stance of
\* that moment.
StanceOnlyInReceiving ==
    [][/\ \A w \in waiting' \ waiting :
              w.stack[Len(w.stack)].at = "receive@294" =>
                  w.stack[Len(w.stack)].dispatch.stance = executors'[w.proc].stance
       /\ \A p \in DOMAIN executors \cap DOMAIN executors' :
              executors'[p].stance # executors[p].stance =>
                  executors[p].fsm = "receiving"]_vars

\* The frames of Executor.raise that a step has created.
Raised == {f \in Frames' \ Frames : f.at = "raise@318"}

\* C26: when the behavior throws e, the Executor goes from 'receiving' to
\* 'raising', the dispatched message is not put back on the queue, the stance
\* is unchanged, and exactly one SupervisionRequest is handed to
\* context.supervise, with an id no other request or response carries, the
\* Executor's own reference as child and e as reason.
C26_BehaviorThrows ==
    [][(last'.op = "receive@294" /\ ~last'.task.outcome.ok) =>
          LET p == last'.proc
          IN  /\ last'.trans = <<<<"receiving", "raising">>>>
              /\ executors'[p].messages = executors[p].messages
              /\ executors'[p].stance = executors[p].stance
              /\ Cardinality(Raised) = 1
              /\ \A f \in Raised :
                    /\ f.request.child = p
                    /\ f.request.reason = last'.task.outcome.reason
                    /\ \A other \in Requests \cup {x \in net : x.kind = "SupervisionResponse"} :
                          other.id # f.request.id]_vars

\* C26 for a throw that finds the Executor in 'receiving', as it is whenever
\* the dispatch was not overtaken by another chain of the same Executor.
BehaviorThrowsInReceiving ==
    [][(last'.op = "receive@294" /\ ~last'.task.outcome.ok
            /\ executors[last'.proc].fsm = "receiving") =>
          LET p == last'.proc
          IN  /\ last'.trans = <<<<"receiving", "raising">>>>
              /\ executors'[p].messages = executors[p].messages
              /\ executors'[p].stance = executors[p].stance
              /\ Cardinality(Raised) = 1
              /\ \A f \in Raised :
                    /\ f.request.child = p
                    /\ f.request.reason = last'.task.outcome.reason
                    /\ \A other \in Requests \cup {x \in net : x.kind = "SupervisionResponse"} :
                          other.id # f.request.id]_vars

\* C27: when the strategy returns the effect f for the request r, the
\* Executor publishes exactly one SupervisionResponse, which carries r.id,
\* r.child and f, goes from 'supervising' to 'sleeping', and keeps its stance.
C27_StrategyReturns ==
    [][(last'.op = "supervise@274" /\ last'.task.outcome.ok) =>
          LET p == last'.proc
              r == last'.task.stack[Len(last'.task.stack)].request
              f == last'.task.outcome.effect
          IN  /\ net' \ net = {Response(r.id, r.child, f)}
              /\ last'.trans # <<>>
              /\ last'.trans[1] = <<"supervising", "sleeping">>
              /\ executors'[p].stance = executors[p].stance]_vars

\* C27 for a strategy that returns while the Executor is still in
\* 'supervising'.
StrategyReturnsInSupervising ==
    [][(last'.op = "supervise@274" /\ last'.task.outcome.ok
            /\ executors[last'.proc].fsm = "supervising") =>
          LET p == last'.proc
              r == last'.task.stack[Len(last'.task.stack)].request
              f == last'.task.outcome.effect
          IN  /\ net' \ net = {Response(r.id, r.child, f)}
              /\ last'.trans # <<>>
              /\ last'.trans[1] = <<"supervising", "sleeping">>
              /\ executors'[p].stance = executors[p].stance]_vars

\* C28: when context.supervise fails while the Executor is raising, the
\* Executor goes from 'raising' to 'terminating' and calls terminate with
\* that failure as reason; no later run of that call chain takes it to
\* 'sleeping'.
C28_SuperviseFails ==
    [][/\ (last'.op = "raise@318" /\ ~last'.task.outcome.ok) =>
              /\ last'.trans = <<<<"raising", "terminating">>>>
              /\ mq' # <<>>
              /\ LET t == mq'[Len(mq')]
                 IN  /\ t.proc = last'.proc
                     /\ t.stack[Len(t.stack)].at = "terminate@350"
                     /\ t.stack[Len(t.stack)].reason = last'.task.outcome.reason
       /\ (last'.task.kind = "cont"
             /\ \E i \in DOMAIN last'.task.stack : last'.task.stack[i].at = "raise@321") =>
              \A i \in DOMAIN last'.trans : last'.trans[i][2] # "sleeping"]_vars

\* C28 for a failure of context.supervise that finds the Executor still in
\* 'raising'.
SuperviseFailsInRaising ==
    [][/\ (last'.op = "raise@318" /\ ~last'.task.outcome.ok
             /\ executors[last'.proc].fsm = "raising") =>
              /\ last'.trans = <<<<"raising", "terminating">>>>
              /\ mq' # <<>>
              /\ LET t == mq'[Len(mq')]
                 IN  /\ t.proc = last'.proc
                     /\ t.stack[Len(t.stack)].at = "terminate@350"
                     /\ t.stack[Len(t.stack)].reason = last'.task.outcome.reason
       /\ (last'.task.kind = "cont"
             /\ \E i \in DOMAIN last'.task.stack : last'.task.stack[i].at = "raise@321") =>
              \A i \in DOMAIN last'.trans : last'.trans[i][2] # "sleeping"]_vars

\* The error that a continuation step hands to the caller of its frame, or
\* lets escape when there is no caller; "" when it hands on a value.
HandedOn ==
    IF Len(last'.task.stack) = 1
    THEN last'.error
    ELSE IF mq' # <<>> /\ mq'[Len(mq')].kind = "cont" /\ ~mq'[Len(mq')].outcome.ok
    THEN mq'[Len(mq')].outcome.reason
    ELSE ""

\* C29: when releaseProcess(self) fails during terminate, the failure comes
\* out of terminate as an Executor invariant error, the Executor does not
\* enter 'end', and while the failure travels up the call chain no transition
\* is attempted (a refused attempt shows as an FSM invariant error); when
\* releaseProcess succeeds the Executor goes from 'terminating' to 'end'.
C29_ReleaseFails ==
    [][/\ (last'.op = "terminate@350" /\ ~last'.task.outcome.ok) =>
              /\ HandedOn = "ExecutorInvariantError"
              /\ executors'[last'.proc].fsm # "end"
              /\ last'.trans = <<>>
       /\ (last'.task.kind = "cont" /\ ~last'.task.outcome.ok
             /\ executors[last'.proc].fsm = "terminating") =>
              /\ last'.trans = <<>>
              /\ HandedOn # "FSMInvariantError"
       /\ (last'.op = "terminate@350" /\ last'.task.outcome.ok) =>
              last'.trans = <<<<"terminating", "end">>>>]_vars

\* The parts of C29 that hold of a failing releaseProcess: the Executor stays
\* in 'terminating', and no transition is made.
ReleaseFailsStaysTerminating ==
    [][(last'.task.kind = "cont" /\ ~last'.task.outcome.ok
          /\ executors[last'.proc].fsm = "terminating") =>
              /\ last'.trans = <<>>
              /\ executors'[last'.proc].fsm = "terminating"]_vars

\* The part of C29 about a releaseProcess that succeeds.
ReleaseSucceeds ==
    [][(last'.op = "terminate@350" /\ last'.task.outcome.ok
          /\ executors[last'.proc].fsm = "terminating") =>
              last'.trans = <<<<"terminating", "end">>>>]_vars

\* C30: a spawn(stance, name) that user code makes while the Executor is
\* receiving succeeds, and the child reference it returns is then a member of
\* the Executor's children; the children are the processes the Executor has
\* spawned and that have not been released.
C30_SpawnedAreChildren ==
    [][(last'.op = "spawn" /\ executors[last'.proc].fsm = "receiving") =>
          /\ last'.error = ""
          /\ childOf(last'.proc, "d") \in executors'[last'.proc].children]_vars

\* What the code does about children: the set is empty from construction on.
ChildrenNeverChange ==
    \A p \in DOMAIN executors : executors[p].children = {}

\* C31: a context.send(target, payload) that user code makes while the
\* Executor is receiving publishes exactly one Message(self, target, payload)
\* through the transport and changes no Executor, also when the target has an
\* Executor in the same pool.
C31_SendOnlyPublishes ==
    [][(last'.op = "send" /\ executors[last'.proc].fsm = "receiving") =>
          /\ last'.error = ""
          /\ \E target \in Procs :
                net' \ net = {MessagePacket(last'.proc, target, NoValue)}
          /\ executors' = executors]_vars

\* The part of C31 that holds of every call of send: no Executor changes and
\* no microtask is scheduled.
SendTouchesNoExecutor ==
    [][last'.op = "send" => executors' = executors /\ mq' = mq /\ pool' = pool]_vars

\* C32: createProcess(parent, stance, name) publishes the packet
\* SchedulingCreate(parent.child(name), stance) and does nothing else: the
\* pool and the Executors are unchanged, and an Executor comes to exist only
\* in the step in which Host.receive handles a SchedulingCreate.
C32_CreateProcessOnlyPublishes ==
    [][/\ last'.op = "createProcess" =>
              /\ last'.error = ""
              /\ Create(childOf(last'.proc, "d"), InitialStance) \in net'
              /\ net' \ net \subseteq {Create(childOf(last'.proc, "d"), InitialStance)}
              /\ pool' = pool
              /\ executors' = executors
       /\ (DOMAIN executors' # DOMAIN executors \/ DOMAIN pool' # DOMAIN pool) =>
              last'.op = "receiveCreate"]_vars

\* The part of C32 that holds: createProcess changes neither pool nor
\* Executors, and only the handling of a SchedulingCreate adds an Executor.
OnlyReceiveCreateAdds ==
    [][/\ last'.op = "createProcess" => pool' = pool /\ executors' = executors
       /\ (DOMAIN executors' # DOMAIN executors \/ DOMAIN pool' # DOMAIN pool) =>
              last'.op = "receiveCreate"]_vars

Handled ==
    IF last'.task.kind = "packet" THEN {last'.task.packet} ELSE net \ net'

\* C34: Host.receive of a SupervisionResponse whose child has no pool entry,
\* or whose id is not registered under the child's entry, fails with an
\* invariant error and resolves no Deferred: the pool is unchanged and no
\* call chain is continued.
C34_UnknownResponse ==
    [][last'.op = "receiveSupervisionResponse" =>
          \A resp \in Handled :
              (\/ ~hasProcess(Cur, resp.child)
               \/ resp.id \notin DOMAIN pool[keyOf(resp.child)]) =>
                  /\ last'.error \in InvariantErrors
                  /\ pool' = pool
                  /\ waiting' = waiting
                  /\ mq' = mq]_vars

\* A response with an unregistered id was refused while the child had
\* another deferral pending.
C34_Witness ==
    /\ last.op = "receiveSupervisionResponse"
    /\ last.error = "HostInvariantError"
    /\ hasProcess(Cur, Child)
    /\ \E id \in DOMAIN pool[keyOf(Child)] : pool[keyOf(Child)][id] = "pending"

\* A response for a process that has no pool entry was refused.
ResponseForAbsentChild ==
    /\ last.op = "receiveSupervisionResponse"
    /\ last.error = "HostInvariantError"
    /\ ~hasProcess(Cur, last.proc)

\* The requests that a step has handed to insertDeferredSupervisionRequest:
\* by a direct call of Host.supervise or by a raise.
Inserted ==
    IF last'.op = "supervise" THEN {last'.task.packet} ELSE {f.request : f \in Raised}

\* The call of Host.supervise that the step made has failed with an
\* invariant error.
InsertFailed ==
    IF last'.op = "supervise"
    THEN last'.error \in InvariantErrors
    ELSE /\ mq' # <<>>
         /\ ~mq'[Len(mq')].outcome.ok
         /\ mq'[Len(mq')].outcome.reason \in InvariantErrors

\* The requests that are registered and on their way: in transit, queued on
\* the parent, or being handled by its strategy.
Outstanding ==
    {x \in net : x.kind = "SupervisionRequest"}
        \cup UNION {{executors[p].requests[i] : i \in DOMAIN executors[p].requests} :
                       p \in DOMAIN executors}
        \cup {f.request : f \in {g \in Frames : g.at \in {"supervise@274", "supervise@277"}}}

InsertForAbsentChild ==
    /\ last.op = "supervise"
    /\ last.error = "HostInvariantError"
    /\ ~hasProcess(Cur, last.proc)

\* The request (id, c) is in the requests queue of an Executor.
Queued(id, c) ==
    \E p \in DOMAIN executors : \E i \in DOMAIN executors[p].requests :
        executors[p].requests[i].id = id /\ executors[p].requests[i].child = c

\* A response to the request (id, c) is on the transport.
Answered(id, c) ==
    \E resp \in net : resp.kind = "SupervisionResponse" /\ resp.id = id /\ resp.child = c

\* C36: every SupervisionRequest that Host.receive has put on the requests
\* queue of a parent Executor is eventually answered by a published
\* SupervisionResponse, whatever happens to the parent in the meantime.
C36_NoRequestLost ==
    \/ <>IdsExhausted
    \/ \A id \in 1..MaxIds : \A c \in Procs : Queued(id, c) ~> Answered(id, c)

\* The case of C36 with a parent that has been asked to terminate while the
\* request is in its queue.
KilledParentAnswers ==
    \/ <>IdsExhausted
    \/ \A id \in 1..MaxIds :
          (Queued(id, Child) /\ executors[Root].hasTerminationBeenRequested)
              ~> Answered(id, Child)

\* The ids registered under p's pool entry whose Deferred is still pending.
Pending(p) == {id \in DOMAIN pool[keyOf(p)] : pool[keyOf(p)][id] = "pending"}

\* The Executor of p is in 'raising' with a chain awaiting context.supervise.
AwaitingSupervise(p) ==
    /\ executors[p].fsm = "raising"
    /\ \E w \in Chains(p) : w.stack[Len(w.stack)].at = "raise@318"

\* C37: each pool entry has at most one pending Deferred, and has one
\* exactly while its Executor is in 'raising' awaiting context.supervise.
C37_OnePendingWhileRaising ==
    \A p \in Procs :
        hasProcess(Cur, p) =>
            /\ Cardinality(Pending(p)) <= 1
            /\ (Pending(p) # {}) <=> AwaitingSupervise(p)

\* The parts of C37 that hold: at most one pending Deferred per pool entry,
\* and one whenever the Executor is awaiting context.supervise.
PendingWhenRaising ==
    \A p \in Procs :
        hasProcess(Cur, p) =>
            /\ Cardinality(Pending(p)) <= 1
            /\ AwaitingSupervise(p) => Pending(p) # {}

\* C38: once Host.receive has handled SupervisionResponse(id, child, effect)
\* without failing, id is no longer registered under child's pool entry; so
\* the ids registered under a child are those of its requests still awaiting
\* a response.
C38_ResolvedIsUnregistered ==
    [][(last'.op = "receiveSupervisionResponse" /\ last'.error = "") =>
          \A resp \in Handled : resp.id \notin DOMAIN pool'[keyOf(resp.child)]]_vars

\* What the code does: an id, once registered, stays registered, and so does
\* its Deferred after it is resolved.
RegisteredForEver ==
    [][\A key \in DOMAIN pool :
          /\ key \in DOMAIN pool'
          /\ DOMAIN pool[key] \subseteq DOMAIN pool'[key]
          /\ \A id \in DOMAIN pool[key] :
                pool[key][id] = "resolved" => pool'[key][id] = "resolved"]_vars

\* A second response with the id of a resolved Deferred is refused by the
\* Deferred, not by the pool.
DuplicateRefusedByDeferred ==
    [][(last'.op = "receiveSupervisionResponse"
          /\ \E resp \in Handled :
                /\ hasProcess(Cur, resp.child)
                /\ resp.id \in DOMAIN pool[keyOf(resp.child)]
                /\ pool[keyOf(resp.child)][resp.id] = "resolved") =>
          last'.error = "FSMInvariantError"]_vars

\* C39: every Executor that has been started and has not terminated is the
\* one registered in the pool under its own reference: no microtask belongs
\* to an Executor that the pool does not hold, and a refused SchedulingCreate
\* has started no Executor.
C39_NoOrphanExecutor ==
    /\ \A j \in DOMAIN mq : ~mq[j].orphan
    /\ \A p \in DOMAIN executors :
          executors[p].fsm \in {"sleeping", "receiving", "supervising", "raising"} =>
              hasProcess(Cur, p)
    /\ (last.op = "receiveCreate" /\ last.error # "") => last.trans = <<>>

\* The part of C39 that holds: the Executors that were inserted stay in the
\* pool under their own reference.
InsertedStayRegistered ==
    \A p \in DOMAIN executors : hasProcess(Cur, p)

\* The step dispatches exactly the front entry of a queue and removes it,
\* removes no entry otherwise, and enqueues only an event that was never in a
\* queue: a message with a new number, or a request taken off the transport.
DispatchStep ==
    /\ FifoStep
    /\ last'.branch = "receive" =>
          /\ executors[last'.proc].messages # <<>>
          /\ last'.popped = Head(executors[last'.proc].messages)
          /\ executors'[last'.proc].messages = Tail(executors[last'.proc].messages)
    /\ last'.branch = "supervise" =>
          /\ executors[last'.proc].requests # <<>>
          /\ last'.popped = Head(executors[last'.proc].requests)
          /\ executors'[last'.proc].requests = Tail(executors[last'.proc].requests)
    /\ \A p \in DOMAIN executors :
          /\ Len(executors'[p].messages) > Len(executors[p].messages) =>
                executors'[p].messages[Len(executors'[p].messages)].n = nextMsg
          /\ Len(executors'[p].requests) > Len(executors[p].requests) =>
                executors'[p].requests[Len(executors'[p].requests)] \in net \ net'

\* The message numbered n has just been handed to the behavior.
DispatchedMessage(n) == last.branch = "receive" /\ last.popped.n = n

\* The message numbered n is in a queue.
QueuedMessage(n) ==
    \E p \in DOMAIN executors : \E i \in DOMAIN executors[p].messages :
        executors[p].messages[i].n = n

\* The request with the id has just been handed to the supervise strategy.
DispatchedRequest(id) == last.branch = "supervise" /\ last.popped.id = id

\* The request with the id is in a queue.
QueuedRequest(id) ==
    \E p \in DOMAIN executors : \E i \in DOMAIN executors[p].requests :
        executors[p].requests[i].id = id

\* C40: every enqueued event is dispatched at most once. The resume step that
\* dispatches an event removes it from its queue, nothing else removes one,
\* and a dispatched event is never in a queue again, so that no later resume
\* step can dispatch it a second time.
C40_DispatchedAtMostOnce ==
    /\ [][DispatchStep]_vars
    /\ \A n \in 1..MaxMsgs : [](DispatchedMessage(n) => [](~QueuedMessage(n)))
    /\ \A id \in 1..MaxIds : [](DispatchedRequest(id) => [](~QueuedRequest(id)))

\* The second message, enqueued while the first was being handled, is
\* dispatched by the resume call that ends the handling of the first, not by
\* the wake of its own arrival.
C40_Witness ==
    /\ last.branch = "receive"
    /\ last.op # "wake"
    /\ last.popped.n = 2
====
